---- MODULE Spec2Model ----
(***************************************************************************)
(* Detection Stabilizer of field-scan-capture: the useBarcodeScanner hook  *)
(* (src/src/hooks/useBarcodeScanner.ts, the debounced variant with confirm  *)
(* threshold 3, lines 269-511) together with the collaborators it drives:  *)
(* the camera (getUserMedia), the <video> element, the QuaggaJS decoder    *)
(* and the JavaScript timer queue; and the Evidence Store: the photo       *)
(* storage hooks (useAndroidPhotoStorage, useNativePhotoStorage,           *)
(* usePhotoStorage) over their backends (IndexedDB, the native file        *)
(* system, localStorage).                                                  *)
(*                                                                         *)
(* Optional values (string | null, number | undefined) are sequences of    *)
(* length at most one: None is << >> and Some(x) is << x >>.  A barcode is *)
(* a sequence of one-character strings.                                    *)
(***************************************************************************)
EXTENDS Integers, Sequences, FiniteSets, TLC

\* ------------------------------------------------------------- bounds

\* startScanner invocations in one behaviour.
MaxStarts == 2

\* Length of one clock tick in milliseconds (the model's unit of time).
TickMs == 1000

\* ---------------------------------------------------------- constants

Threshold == 3
ConfidenceFloor == 80
MinLength == 6
MaxLength == 50
DecayMs == 2000
StopDelayMs == 100

\* A setTimeout delay in whole ticks: the callback runs no earlier than
\* the delay.
DelayTicks(ms) == (ms + TickMs - 1) \div TickMs

DecayTicks == DelayTicks(DecayMs)

StopTicks == DelayTicks(StopDelayMs)

\* ----------------------------------------------------- optional values

None == << >>

Some(x) == << x >>

\* ------------------------------------------------- Candidate Validator

Digits == {"0", "1", "2", "3", "4", "5", "6", "7", "8", "9"}

UpperLetters ==
  {"A", "B", "C", "D", "E", "F", "G", "H", "I", "J", "K", "L", "M",
   "N", "O", "P", "Q", "R", "S", "T", "U", "V", "W", "X", "Y", "Z"}

LowerLetters ==
  {"a", "b", "c", "d", "e", "f", "g", "h", "i", "j", "k", "l", "m",
   "n", "o", "p", "q", "r", "s", "t", "u", "v", "w", "x", "y", "z"}

\* The character class [0-9A-Za-z\-_\.\/].
AllowedChars == Digits \cup UpperLetters \cup LowerLetters \cup {"-", "_", ".", "/"}

uniqueChars(code) == Cardinality({code[i] : i \in 1..Len(code)})

\* A faulty validateBarcode without the test of the character class; the
\* property C29 does not hold of it.
validateBarcodeAnyCharacter(code) ==
  /\ Len(code) > 0
  /\ ~(Len(code) < MinLength \/ Len(code) > MaxLength)
  /\ ~(uniqueChars(code) < 2 /\ Len(code) > 4)

validateBarcode(code) ==
  /\ Len(code) > 0
  /\ ~(Len(code) < MinLength \/ Len(code) > MaxLength)
  /\ \A i \in 1..Len(code) : code[i] \in AllowedChars
  /\ ~(uniqueChars(code) < 2 /\ Len(code) > 4)

\* ------------------------------------------------------ decoder inputs

CodeC == <<"A", "B", "C", "1", "2", "3">>

CodeD == <<"X", "Y", "Z", "7", "8", "9">>

CodeRepeated == <<"1", "1", "1", "1", "1", "1">>

\* Candidates the decoder may report.
Codes == {CodeC, CodeD, CodeRepeated}

\* codeResult.confidence: absent, or a number.
Confidences == {None, Some(0), Some(79), Some(80)}

\* ---------------------------------------------------------------- state

VARIABLES
  scannerState,        \* React state: isScanning, currentBarcode, feedback
  streamRef,           \* TRUE iff the hook holds a stream (non-null)
  liveStreams,         \* number of acquired streams whose tracks are not stopped
  isInitializedRef,
  lastDetectedRef,
  detectionCountRef,
  detectionTimeoutRef, \* [held: the ref is non-null, due: ticks until the callback runs, -1: not pending]
  isProcessingRef,
  quaggaRunning,       \* the decoder is started and not stopped
  handlers,            \* callbacks registered with Quagga.onDetected
  stopTimers,          \* pending deferred decoder stops: ticks left, oldest first
  starts,              \* startScanner invocations suspended at each await (see NoStarts)
  nStarts,             \* startScanner invocations so far
  run,                 \* history: the run of accepted events (see NoRun)
  confirms,            \* history: confirmations since the last start or stop
  sinceAccepted,       \* history: ticks since the last accepted event, counted up to the decay window
  stopsSinceStart,     \* history: Quagga.stop calls since the last Quagga.start
  lastEvent            \* history: the guard that turned the last decode event away (see EventClass)

\* The Evidence Store.
VARIABLES
  facade,              \* the storage hook the application mounted (see Facades)
  photos,              \* React state `photos` of useNativePhotoStorage / usePhotoStorage
  androidPhotos,       \* React state `photos` of useAndroidPhotoStorage
  db,                  \* the records of the IndexedDB object store 'photos' (keyPath id)
  imageFiles,          \* ids whose JPG file exists under Documents/campo-scanner
  metadata,            \* the records of the metadata JSON files (one file per id)
  localBackup,         \* localStorage['campo_scanner_photos']: absent, or a list of records
  calls,               \* store calls awaiting their backend, in the order they were made
  clock,               \* Date.now()
  nOps,                \* store calls made so far
  result               \* history: how the call settled last ended (see NoResult)

scannerVars ==
  <<scannerState, streamRef, liveStreams,
    isInitializedRef, lastDetectedRef, detectionCountRef, detectionTimeoutRef,
    isProcessingRef, quaggaRunning, handlers, stopTimers, starts, nStarts,
    run, confirms, sinceAccepted, stopsSinceStart, lastEvent>>

storeVars ==
  <<facade, photos, androidPhotos, db, imageFiles, metadata, localBackup,
    calls, clock, nOps, result>>

\* The application shell (CampoScanner) and the photo camera (PhotoCamera
\* over useCamera).
VARIABLES
  shell,               \* React state of CampoScanner and the auto-close timers of BarcodeScanner (see NoShell)
  camera               \* useCamera in PhotoCamera (see NoCamera)

shellVars == <<shell, camera>>

\* The Candidate Validator at work.
VARIABLE
  validation           \* the candidate and what each validateBarcode said of it (see Unvalidated)

vars == <<scannerVars, storeVars, shellVars, validation>>

Feedback(msg) == <<msg>>

NoTimeout == [held |-> FALSE, due |-> -1]

\* The run of consecutive accepted events (valid candidate, confidence
\* absent or at least the floor) with the same candidate, not interrupted by
\* any other event that passed the handler's guards: the candidate, the
\* events in the run (counted up to the threshold) and those of them since
\* the decay timer last ran.
NoRun == [code |-> None, len |-> 0, fresh |-> 0]

\* Suspended startScanner invocations: camera, awaiting getUserMedia;
\* waiting, awaiting loadedmetadata with its resolve as the element's
\* onloadedmetadata handler (the property holds one handler); orphaned,
\* awaiting a promise nothing will resolve (no element was attached, or its
\* handler was replaced or went with the element); init, awaiting
\* Quagga.init's callback.
NoStarts == [camera |-> 0, waiting |-> 0, orphaned |-> 0, init |-> 0]

\* No call has settled yet.
NoResult == [op |-> "none", id |-> << >>, outcome |-> "none", had |-> FALSE]

\* The store of a fresh installation, behind the hook f.
StoreInit(f) ==
  /\ facade = f
  /\ photos = << >>
  /\ androidPhotos = << >>
  /\ db = {}
  /\ imageFiles = {}
  /\ metadata = {}
  /\ localBackup = None
  /\ calls = << >>
  /\ clock = 0
  /\ nOps = 0
  /\ result = NoResult

ScannerInit ==
  /\ scannerState = [isScanning |-> FALSE, currentBarcode |-> None,
                     feedback |-> Feedback("initial")]
  /\ streamRef = FALSE
  /\ liveStreams = 0
  /\ isInitializedRef = FALSE
  /\ lastDetectedRef = None
  /\ detectionCountRef = 0
  /\ detectionTimeoutRef = NoTimeout
  /\ isProcessingRef = FALSE
  /\ quaggaRunning = FALSE
  /\ handlers = 0
  /\ stopTimers = << >>
  /\ starts = NoStarts
  /\ nStarts = 0
  /\ run = NoRun
  /\ confirms = 0
  /\ sinceAccepted = 0
  /\ stopsSinceStart = 0
  /\ lastEvent = "none"

\* CampoScanner as it mounts: the main screen, no barcode, every modal
\* closed; autoClose holds the barcodes the pending auto-close timers of
\* BarcodeScanner captured.
NoShell ==
  [currentScreen |-> "main", currentBarcode |-> None,
   showBarcodeScanner |-> FALSE, showPhotoCamera |-> FALSE, showManualInput |-> FALSE,
   autoClose |-> {}, toast |-> ""]

\* useCamera as it mounts: stream is the state `stream` being non-null,
\* pending the getUserMedia requests not yet answered, live the streams
\* acquired whose tracks are not stopped, requests the requests so far,
\* error the state permissionState.error being non-null, video the element
\* having a stream as its source, captured the state capturedImage of
\* PhotoCamera being non-null.
NoCamera ==
  [stream |-> FALSE, hasPermission |-> FALSE, error |-> FALSE, pending |-> 0,
   live |-> 0, requests |-> 0, video |-> FALSE, captured |-> FALSE]

\* A candidate neither validateBarcode has seen yet.
Unvalidated(code) == [code |-> code, baseline |-> None, strict |-> None]

ShellInit == shell = NoShell /\ camera = NoCamera /\ validation = Unvalidated(<< >>)

Init == ScannerInit /\ StoreInit("android") /\ ShellInit

\* ------------------------------------------------ the onDetected handler

\* The refs and state one handler invocation reads and writes.
HandlerState ==
  [scannerState |-> scannerState,
   lastDetectedRef |-> lastDetectedRef,
   detectionCountRef |-> detectionCountRef,
   detectionTimeoutRef |-> detectionTimeoutRef,
   isProcessingRef |-> isProcessingRef,
   stopTimers |-> stopTimers,
   confirms |-> confirms]

\* data.codeResult.confidence && data.codeResult.confidence < 80
BelowFloor(conf) == Len(conf) = 1 /\ conf[1] # 0 /\ conf[1] < ConfidenceFloor

\* The event reaches the debouncing logic.
PassesGuards(code, conf) == validateBarcode(code) /\ ~BelowFloor(conf)

\* The confidence is absent or at least the floor.
AtOrAboveFloor(conf) == Len(conf) = 0 \/ conf[1] >= ConfidenceFloor

\* An accepted event: a valid candidate with a confidence that is absent or
\* at least the floor.
Accepted(code, conf) == validateBarcode(code) /\ AtOrAboveFloor(conf)

\* A faulty match branch that confirms one event late (> for >=); the
\* confirmation property C1 does not hold of it.
MatchBranchOneLate(r, code) ==
  LET n == r.detectionCountRef + 1 IN
  IF n > Threshold
    THEN [r EXCEPT !.detectionCountRef = n,
                   !.isProcessingRef = TRUE,
                   !.scannerState.currentBarcode = Some(code),
                   !.scannerState.feedback = <<"detected", code>>,
                   !.stopTimers = Append(@, StopTicks),
                   !.confirms = @ + 1]
    ELSE [r EXCEPT !.detectionCountRef = n]

\* lastDetectedRef.current === code
MatchBranch(r, code) ==
  LET n == r.detectionCountRef + 1 IN
  IF n >= Threshold
    THEN [r EXCEPT !.detectionCountRef = n,
                   !.isProcessingRef = TRUE,
                   !.scannerState.currentBarcode = Some(code),
                   !.scannerState.feedback = <<"detected", code>>,
                   !.stopTimers = Append(@, StopTicks),
                   !.confirms = @ + 1]
    ELSE [r EXCEPT !.detectionCountRef = n]

\* New code detected: reset the counter and re-arm the decay timer.
NewCodeBranch(r, code) ==
  [r EXCEPT !.lastDetectedRef = Some(code),
            !.detectionCountRef = 1,
            !.detectionTimeoutRef = [held |-> TRUE, due |-> DecayTicks]]

\* A faulty handler without the isProcessingRef latch (as in the undebounced
\* variant of the hook); the terminal property C6 does not hold of it.
OnDetectedNoLatch(r, code, conf) ==
  IF ~validateBarcode(code) THEN r
  ELSE IF BelowFloor(conf) THEN r
  ELSE IF r.lastDetectedRef = Some(code) THEN MatchBranch(r, code)
  ELSE NewCodeBranch(r, code)

\* A faulty handler without the validator guard; the frame property C7 does
\* not hold of it.
OnDetectedNoValidator(r, code, conf) ==
  IF r.isProcessingRef THEN r
  ELSE IF BelowFloor(conf) THEN r
  ELSE IF r.lastDetectedRef = Some(code) THEN MatchBranch(r, code)
  ELSE NewCodeBranch(r, code)

\* One invocation of the callback given to Quagga.onDetected.
OnDetected(r, code, conf) ==
  IF r.isProcessingRef THEN r
  ELSE IF ~validateBarcode(code) THEN r
  ELSE IF BelowFloor(conf) THEN r
  ELSE IF r.lastDetectedRef = Some(code) THEN MatchBranch(r, code)
  ELSE NewCodeBranch(r, code)

\* The decoder publishes one event to every registered callback, in the
\* order of registration.
RECURSIVE Publish(_, _, _, _)
Publish(r, n, code, conf) ==
  IF n = 0 THEN r ELSE Publish(OnDetected(r, code, conf), n - 1, code, conf)

\* For the history: the event met the latch, failed the validator, or
\* neither.
EventClass(code, conf) ==
  IF isProcessingRef THEN "latched"
  ELSE IF ~validateBarcode(code) THEN "invalid"
  ELSE "none"

\* The history of the run of accepted events; it stops at the session's
\* confirmation, and an event that passed the guards without being accepted
\* ends the run before it.
NextRun(code, conf) ==
  IF confirms > 0 \/ isProcessingRef \/ ~PassesGuards(code, conf) THEN run
  ELSE IF ~Accepted(code, conf) THEN [code |-> Some(code), len |-> 0, fresh |-> 0]
  ELSE IF run.code = Some(code)
    THEN [run EXCEPT !.len = IF @ < Threshold THEN @ + 1 ELSE @,
                     !.fresh = IF @ < Threshold THEN @ + 1 ELSE @]
  ELSE [code |-> Some(code), len |-> 1, fresh |-> 1]

Detect(code, conf) ==
  /\ quaggaRunning
  /\ handlers > 0
  /\ LET r == Publish(HandlerState, handlers, code, conf) IN
       /\ scannerState' = r.scannerState
       /\ lastDetectedRef' = r.lastDetectedRef
       /\ detectionCountRef' = r.detectionCountRef
       /\ detectionTimeoutRef' = r.detectionTimeoutRef
       /\ isProcessingRef' = r.isProcessingRef
       /\ stopTimers' = r.stopTimers
       /\ confirms' = r.confirms
  /\ run' = NextRun(code, conf)
  /\ sinceAccepted' =
       IF ~isProcessingRef /\ Accepted(code, conf) THEN 0 ELSE sinceAccepted
  /\ lastEvent' = EventClass(code, conf)
  /\ UNCHANGED <<streamRef, liveStreams,
                 isInitializedRef, quaggaRunning, handlers, starts, nStarts,
                 stopsSinceStart>>
  /\ UNCHANGED <<storeVars, shellVars, validation>>

\* --------------------------------------------------------- startScanner

SessionHistoryReset ==
  /\ run' = NoRun
  /\ confirms' = 0
  /\ sinceAccepted' = 0
  /\ lastEvent' = "none"

\* A faulty startScanner that leaves the consecutive-match count as it is;
\* the reset property C13 does not hold of it.
StartScannerKeepsCount ==
  /\ nStarts < MaxStarts
  /\ scannerState' = [scannerState EXCEPT !.isScanning = TRUE,
                                          !.feedback = Feedback("starting"),
                                          !.currentBarcode = None]
  /\ lastDetectedRef' = None
  /\ isProcessingRef' = FALSE
  /\ detectionTimeoutRef' = IF detectionTimeoutRef.held THEN NoTimeout ELSE detectionTimeoutRef
  /\ liveStreams' = IF streamRef THEN liveStreams - 1 ELSE liveStreams
  /\ streamRef' = FALSE
  /\ nStarts' = nStarts + 1
  /\ starts' = [starts EXCEPT !.camera = @ + 1]
  /\ SessionHistoryReset
  /\ UNCHANGED <<isInitializedRef, detectionCountRef, quaggaRunning, handlers,
                 stopTimers, stopsSinceStart>>
  /\ UNCHANGED <<storeVars, shellVars, validation>>

\* startScanner up to its first await: the state resets, then getUserMedia
\* is requested.
startScanner ==
  /\ nStarts < MaxStarts
  /\ scannerState' = [scannerState EXCEPT !.isScanning = TRUE,
                                          !.feedback = Feedback("starting"),
                                          !.currentBarcode = None]
  /\ lastDetectedRef' = None
  /\ detectionCountRef' = 0
  /\ isProcessingRef' = FALSE
  /\ detectionTimeoutRef' = IF detectionTimeoutRef.held THEN NoTimeout ELSE detectionTimeoutRef
  /\ liveStreams' = IF streamRef THEN liveStreams - 1 ELSE liveStreams
  /\ streamRef' = FALSE
  /\ nStarts' = nStarts + 1
  /\ starts' = [starts EXCEPT !.camera = @ + 1]
  /\ SessionHistoryReset
  /\ UNCHANGED <<isInitializedRef, quaggaRunning, handlers,
                 stopTimers, stopsSinceStart>>

StartScanner ==
  /\ startScanner
  /\ UNCHANGED <<storeVars, shellVars, validation>>

\* getUserMedia resolves: the stream is kept in streamRef (whatever it held)
\* and handed to the video element, and the invocation waits for
\* loadedmetadata.  attached is videoRef.current # null at that moment (React
\* attaches and detaches the element); with no element the promise's
\* executor registers nothing and the wait never ends.
CameraGranted(attached) ==
  /\ starts.camera > 0
  /\ streamRef' = TRUE
  /\ liveStreams' = liveStreams + 1
  /\ starts' = IF attached
                 THEN [starts EXCEPT !.camera = @ - 1, !.waiting = 1,
                                     !.orphaned = @ + starts.waiting]
                 ELSE [starts EXCEPT !.camera = @ - 1, !.orphaned = @ + 1]
  /\ UNCHANGED <<scannerState, isInitializedRef, lastDetectedRef,
                 detectionCountRef, detectionTimeoutRef, isProcessingRef,
                 quaggaRunning, handlers, stopTimers, nStarts, run, confirms,
                 sinceAccepted, stopsSinceStart, lastEvent>>
  /\ UNCHANGED <<storeVars, shellVars, validation>>

\* A faulty catch block that reports the failure but leaves isScanning set;
\* the failure property C12 does not hold of it.
CameraDeniedKeepsScanning ==
  /\ starts.camera > 0
  /\ scannerState' = [scannerState EXCEPT !.feedback = Feedback("cameraError")]
  /\ starts' = [starts EXCEPT !.camera = @ - 1]
  /\ UNCHANGED <<streamRef, liveStreams,
                 isInitializedRef, lastDetectedRef, detectionCountRef,
                 detectionTimeoutRef, isProcessingRef, quaggaRunning, handlers,
                 stopTimers, nStarts, run, confirms, sinceAccepted,
                 stopsSinceStart, lastEvent>>
  /\ UNCHANGED <<storeVars, shellVars, validation>>

\* getUserMedia rejects: the catch block.
CameraDenied ==
  /\ starts.camera > 0
  /\ scannerState' = [scannerState EXCEPT !.isScanning = FALSE,
                                          !.feedback = Feedback("cameraError")]
  /\ starts' = [starts EXCEPT !.camera = @ - 1]
  /\ UNCHANGED <<streamRef, liveStreams,
                 isInitializedRef, lastDetectedRef, detectionCountRef,
                 detectionTimeoutRef, isProcessingRef, quaggaRunning, handlers,
                 stopTimers, nStarts, run, confirms, sinceAccepted,
                 stopsSinceStart, lastEvent>>
  /\ UNCHANGED <<storeVars, shellVars, validation>>

\* The element's loadedmetadata event: its handler resolves the promise of
\* the invocation that set it, which goes on to call Quagga.init.
LoadedMetadata ==
  /\ starts.waiting = 1
  /\ starts' = [starts EXCEPT !.waiting = 0, !.init = @ + 1]
  /\ UNCHANGED <<scannerState, streamRef, liveStreams,
                 isInitializedRef, lastDetectedRef, detectionCountRef,
                 detectionTimeoutRef, isProcessingRef, quaggaRunning, handlers,
                 stopTimers, nStarts, run, confirms, sinceAccepted,
                 stopsSinceStart, lastEvent>>
  /\ UNCHANGED <<storeVars, shellVars, validation>>

\* Quagga.init's callback without an error: the decoder starts and one more
\* detection callback is registered.
InitOk ==
  /\ starts.init > 0
  /\ quaggaRunning' = TRUE
  /\ stopsSinceStart' = 0
  /\ isInitializedRef' = TRUE
  /\ scannerState' = [scannerState EXCEPT !.feedback = Feedback("active")]
  /\ handlers' = handlers + 1
  /\ starts' = [starts EXCEPT !.init = @ - 1]
  /\ UNCHANGED <<streamRef, liveStreams,
                 lastDetectedRef, detectionCountRef, detectionTimeoutRef,
                 isProcessingRef, stopTimers, nStarts, run, confirms, sinceAccepted, lastEvent>>
  /\ UNCHANGED <<storeVars, shellVars, validation>>

\* Quagga.init's callback with an error.
InitErr ==
  /\ starts.init > 0
  /\ scannerState' = [scannerState EXCEPT !.isScanning = FALSE,
                                          !.feedback = Feedback("initError")]
  /\ starts' = [starts EXCEPT !.init = @ - 1]
  /\ UNCHANGED <<streamRef, liveStreams,
                 isInitializedRef, lastDetectedRef, detectionCountRef,
                 detectionTimeoutRef, isProcessingRef, quaggaRunning, handlers,
                 stopTimers, nStarts, run, confirms, sinceAccepted,
                 stopsSinceStart, lastEvent>>
  /\ UNCHANGED <<storeVars, shellVars, validation>>

\* ---------------------------------------------------------------- timers

\* The decay timer's callback.
DecayFire ==
  /\ detectionTimeoutRef.due = 0
  /\ lastDetectedRef' = None
  /\ detectionCountRef' = 0
  /\ detectionTimeoutRef' = [detectionTimeoutRef EXCEPT !.due = -1]
  /\ run' = IF confirms = 0 THEN [run EXCEPT !.fresh = 0] ELSE run
  /\ UNCHANGED <<scannerState, streamRef,
                 liveStreams, isInitializedRef, isProcessingRef, quaggaRunning,
                 handlers, stopTimers, starts, nStarts, confirms, sinceAccepted, stopsSinceStart, lastEvent>>
  /\ UNCHANGED <<storeVars, shellVars, validation>>

\* The deferred decoder stop scheduled at confirmation.
StopFire ==
  /\ stopTimers # << >>
  /\ Head(stopTimers) = 0
  /\ stopTimers' = Tail(stopTimers)
  /\ quaggaRunning' = IF isInitializedRef THEN FALSE ELSE quaggaRunning
  /\ stopsSinceStart' = IF isInitializedRef THEN stopsSinceStart + 1 ELSE stopsSinceStart
  /\ isInitializedRef' = FALSE
  /\ UNCHANGED <<scannerState, streamRef,
                 liveStreams, lastDetectedRef, detectionCountRef, detectionTimeoutRef,
                 isProcessingRef, handlers, starts, nStarts, run, confirms,
                 sinceAccepted, lastEvent>>
  /\ UNCHANGED <<storeVars, shellVars, validation>>

\* Time passes by one tick; a timer that is due runs first.
Tick ==
  /\ detectionTimeoutRef.due # 0
  /\ \A k \in 1..Len(stopTimers) : stopTimers[k] # 0
  /\ detectionTimeoutRef' =
       IF detectionTimeoutRef.due > 0
         THEN [detectionTimeoutRef EXCEPT !.due = @ - 1]
         ELSE detectionTimeoutRef
  /\ stopTimers' = [k \in 1..Len(stopTimers) |-> stopTimers[k] - 1]
  /\ sinceAccepted' = IF sinceAccepted < DecayTicks THEN sinceAccepted + 1 ELSE sinceAccepted
  /\ UNCHANGED <<scannerState, streamRef,
                 liveStreams, isInitializedRef, lastDetectedRef, detectionCountRef,
                 isProcessingRef, quaggaRunning, handlers, starts, nStarts, run,
                 confirms, stopsSinceStart, lastEvent>>
  /\ UNCHANGED <<storeVars, shellVars, validation>>

\* ---------------------------------------------------------- stopScanner

\* What stopScanner reads and writes.
StopState ==
  [scannerState |-> scannerState,
   streamRef |-> streamRef,
   liveStreams |-> liveStreams,
   isInitializedRef |-> isInitializedRef,
   lastDetectedRef |-> lastDetectedRef,
   detectionCountRef |-> detectionCountRef,
   detectionTimeoutRef |-> detectionTimeoutRef,
   isProcessingRef |-> isProcessingRef,
   quaggaRunning |-> quaggaRunning,
   starts |-> starts,
   stopsSinceStart |-> stopsSinceStart]

\* A faulty stopScanner that leaves the confirmed latch as it is; the
\* clearing property C9 does not hold of it.
stopScannerKeepsLatch(s) ==
  [s EXCEPT
     !.quaggaRunning = IF s.isInitializedRef THEN FALSE ELSE @,
     !.stopsSinceStart = IF s.isInitializedRef THEN @ + 1 ELSE @,
     !.isInitializedRef = FALSE,
     !.liveStreams = IF s.streamRef THEN @ - 1 ELSE @,
     !.streamRef = FALSE,
     !.starts = [@ EXCEPT !.waiting = 0, !.orphaned = @ + s.starts.waiting],
     !.lastDetectedRef = None,
     !.detectionCountRef = 0,
     !.detectionTimeoutRef = IF s.detectionTimeoutRef.held THEN NoTimeout ELSE @,
     !.scannerState = [isScanning |-> FALSE, currentBarcode |-> None,
                       feedback |-> Feedback("stopped")]]

\* A faulty stopScanner that stops the decoder without consulting
\* isInitializedRef; the idempotence property C10 does not hold of it.
stopScannerUnguarded(s) ==
  [s EXCEPT
     !.quaggaRunning = FALSE,
     !.stopsSinceStart = @ + 1,
     !.isInitializedRef = FALSE,
     !.liveStreams = IF s.streamRef THEN @ - 1 ELSE @,
     !.streamRef = FALSE,
     !.starts = [@ EXCEPT !.waiting = 0, !.orphaned = @ + s.starts.waiting],
     !.lastDetectedRef = None,
     !.detectionCountRef = 0,
     !.isProcessingRef = FALSE,
     !.detectionTimeoutRef = IF s.detectionTimeoutRef.held THEN NoTimeout ELSE @,
     !.scannerState = [isScanning |-> FALSE, currentBarcode |-> None,
                       feedback |-> Feedback("stopped")]]

\* stopScanner, from the state s.  With an element attached srcObject is
\* set to null, which cancels its pending loadedmetadata; with none, the
\* element went with its pending event: either way no invocation is left
\* waiting for the event.
stopScanner(s) ==
  [s EXCEPT
     !.quaggaRunning = IF s.isInitializedRef THEN FALSE ELSE @,
     !.stopsSinceStart = IF s.isInitializedRef THEN @ + 1 ELSE @,
     !.isInitializedRef = FALSE,
     !.liveStreams = IF s.streamRef THEN @ - 1 ELSE @,
     !.streamRef = FALSE,
     !.starts = [@ EXCEPT !.waiting = 0, !.orphaned = @ + s.starts.waiting],
     !.lastDetectedRef = None,
     !.detectionCountRef = 0,
     !.isProcessingRef = FALSE,
     !.detectionTimeoutRef = IF s.detectionTimeoutRef.held THEN NoTimeout ELSE @,
     !.scannerState = [isScanning |-> FALSE, currentBarcode |-> None,
                       feedback |-> Feedback("stopped")]]

\* The scanner takes the state s.
ScannerBecomes(s) ==
  /\ scannerState' = s.scannerState
  /\ streamRef' = s.streamRef
  /\ liveStreams' = s.liveStreams
  /\ isInitializedRef' = s.isInitializedRef
  /\ lastDetectedRef' = s.lastDetectedRef
  /\ detectionCountRef' = s.detectionCountRef
  /\ detectionTimeoutRef' = s.detectionTimeoutRef
  /\ isProcessingRef' = s.isProcessingRef
  /\ quaggaRunning' = s.quaggaRunning
  /\ starts' = s.starts
  /\ stopsSinceStart' = s.stopsSinceStart
  /\ SessionHistoryReset
  /\ UNCHANGED <<handlers, stopTimers, nStarts>>

StopScanner ==
  /\ ScannerBecomes(stopScanner(StopState))
  /\ UNCHANGED <<storeVars, shellVars, validation>>

\* ------------------------------------------------------ the video element

\* React detaches the <video> element while an invocation waits for its
\* loadedmetadata: the event will not come.
UnmountVideo ==
  /\ starts.waiting = 1
  /\ starts' = [starts EXCEPT !.waiting = 0, !.orphaned = @ + 1]
  /\ UNCHANGED <<scannerState, streamRef, liveStreams, isInitializedRef,
                 lastDetectedRef, detectionCountRef, detectionTimeoutRef,
                 isProcessingRef, quaggaRunning, handlers, stopTimers,
                 nStarts, run, confirms, sinceAccepted,
                 stopsSinceStart, lastEvent>>
  /\ UNCHANGED <<storeVars, shellVars, validation>>

\* ------------------------------------------------------- specification

Next ==
  \/ StartScanner
  \/ \E attached \in BOOLEAN : CameraGranted(attached)
  \/ CameraDenied
  \/ LoadedMetadata
  \/ InitOk
  \/ InitErr
  \/ \E code \in Codes, conf \in Confidences : Detect(code, conf)
  \/ DecayFire
  \/ StopFire
  \/ Tick
  \/ StopScanner
  \/ UnmountVideo

Spec == Init /\ [][Next]_vars


\* The callbacks and timers run whenever they are pending: the camera
\* answers, the element reports its metadata, Quagga.init calls back, due
\* timers run and time passes.
LiveSpec ==
  /\ Spec
  /\ WF_vars((\E attached \in BOOLEAN : CameraGranted(attached)) \/ CameraDenied)
  /\ WF_vars(LoadedMetadata)
  /\ WF_vars(InitOk \/ InitErr)
  /\ WF_vars(DecayFire)
  /\ WF_vars(StopFire)
  /\ WF_vars(Tick)

\* ------------------------------------------------------- Evidence Store

\* Store calls in one behaviour.
MaxOps == 3

\* Store calls awaiting their backend at one time.
MaxPending == 2

\* The last reading of Date.now().
Times == {0, 1}

\* The storage hooks: useAndroidPhotoStorage; useNativePhotoStorage with
\* isNative true ("native") and false ("web"); usePhotoStorage ("legacy").
Facades == {"android", "native", "web", "legacy"}

\* Barcodes photographed, in the order of their strings.
BarcodeOrder == <<"A", "B">>

Barcodes == {BarcodeOrder[i] : i \in 1..Len(BarcodeOrder)}

\* Values of Math.random().toString(36).substr(2, 9).
Randoms == {0, 1}

\* The id of a new record: barcode_now_random, and barcode_now in
\* usePhotoStorage.
PhotoId(f, barcode, now, random) ==
  IF f = "legacy" THEN <<barcode, now>> ELSE <<barcode, now, random>>

\* The PhotoRecord addPhoto builds (the image and the file name take no part
\* in what follows).
NewPhoto(f, barcode, now, random) ==
  [id |-> PhotoId(f, barcode, now, random), barcode |-> barcode, timestamp |-> now]

\* An id no addPhoto produces.
NeverStoredId == <<"none">>

\* photos.filter(photo => photo.id !== photoId)
RECURSIVE WithoutId(_, _)
WithoutId(list, id) ==
  IF list = << >> THEN << >>
  ELSE IF Head(list).id = id THEN WithoutId(Tail(list), id)
  ELSE <<Head(list)>> \o WithoutId(Tail(list), id)

\* photos.filter(photo => photo.barcode === barcode)
RECURSIVE WithBarcode(_, _)
WithBarcode(list, barcode) ==
  IF list = << >> THEN << >>
  ELSE IF Head(list).barcode = barcode
    THEN <<Head(list)>> \o WithBarcode(Tail(list), barcode)
  ELSE WithBarcode(Tail(list), barcode)

\* The ids of the records of a list.
IdsOf(list) == {list[i].id : i \in 1..Len(list)}

\* store.put(photo): the record replaces the one stored under its key.
put(records, photo) == {q \in records : q.id # photo.id} \cup {photo}

\* store.delete(id)
delete(records, id) == {q \in records : q.id # id}

\* The order of two keys of the object store (the order of the id strings).
BarcodeRank(barcode) == CHOOSE i \in 1..Len(BarcodeOrder) : BarcodeOrder[i] = barcode

KeyBefore(p, q) ==
  \/ BarcodeRank(p.barcode) < BarcodeRank(q.barcode)
  \/ /\ p.barcode = q.barcode
     /\ \/ p.timestamp < q.timestamp
        \/ p.timestamp = q.timestamp /\ p.id[Len(p.id)] < q.id[Len(q.id)]

\* getAllPhotos: store.getAll() in key order, then a stable sort by
\* timestamp, newest first.
RECURSIVE getAllPhotos(_)
getAllPhotos(records) ==
  IF records = {} THEN << >>
  ELSE LET first == CHOOSE p \in records :
                      \A q \in records \ {p} :
                        \/ p.timestamp > q.timestamp
                        \/ p.timestamp = q.timestamp /\ KeyBefore(p, q)
       IN <<first>> \o getAllPhotos(records \ {first})

\* What a store call reads and writes; outcome is how its promise settles.
StoreState ==
  [photos |-> photos,
   androidPhotos |-> androidPhotos,
   db |-> db,
   imageFiles |-> imageFiles,
   metadata |-> metadata,
   localBackup |-> localBackup,
   outcome |-> "pending"]

\* What the environment does to the backend requests of one call: nothing,
\* the request that writes or deletes the record fails, or (native file
\* system) the request on the metadata file fails.
Faults == {"none", "backend", "metadata"}

\* ------------------------------------------- useAndroidPhotoStorage

useAndroidPhotoStorage_addPhoto(s, photo, fault) ==
  IF fault = "none"
    THEN [s EXCEPT !.db = put(@, photo),
                   !.androidPhotos = <<photo>> \o @,
                   !.outcome = "resolved"]
    ELSE [s EXCEPT !.outcome = "rejected"]

useAndroidPhotoStorage_removePhoto(s, id, fault) ==
  IF fault = "none"
    THEN [s EXCEPT !.db = delete(@, id),
                   !.androidPhotos = WithoutId(@, id),
                   !.outcome = "resolved"]
    ELSE [s EXCEPT !.outcome = "rejected"]

\* clearAllPhotos without its setPhotos([]).
useAndroidPhotoStorage_clearAllPhotosKeepsCache(s, fault) ==
  IF fault = "none"
    THEN [s EXCEPT !.db = {}, !.outcome = "resolved"]
    ELSE [s EXCEPT !.outcome = "rejected"]

useAndroidPhotoStorage_clearAllPhotos(s, fault) ==
  IF fault = "none"
    THEN [s EXCEPT !.db = {}, !.androidPhotos = << >>, !.outcome = "resolved"]
    ELSE [s EXCEPT !.outcome = "rejected"]

\* loadPhotos: the state becomes the backend's listing.
useAndroidPhotoStorage_loadPhotos(s) ==
  [s EXCEPT !.androidPhotos = getAllPhotos(s.db)]

\* -------------------------------- useNativePhotoStorage, isNative true

\* NativePhotoStorage.savePhoto: the JPG file is written, then the metadata
\* file, whose failure is logged and not thrown.
nativePhotoStorage_savePhoto(s, photo, fault) ==
  IF fault = "backend" THEN [s EXCEPT !.outcome = "rejected"]
  ELSE IF fault = "metadata"
    THEN [s EXCEPT !.imageFiles = @ \cup {photo.id}, !.outcome = "resolved"]
  ELSE [s EXCEPT !.imageFiles = @ \cup {photo.id},
                 !.metadata = put(@, photo),
                 !.outcome = "resolved"]

\* NativePhotoStorage.deletePhoto: deleteFile of the JPG file, then of the
\* metadata file; deleteFile of a file that does not exist fails.
nativePhotoStorage_deletePhoto(s, id, fault) ==
  IF fault = "backend" \/ id \notin s.imageFiles
    THEN [s EXCEPT !.outcome = "rejected"]
  ELSE IF fault = "metadata" \/ ~(\E q \in s.metadata : q.id = id)
    THEN [s EXCEPT !.imageFiles = @ \ {id}, !.outcome = "rejected"]
  ELSE [s EXCEPT !.imageFiles = @ \ {id},
                 !.metadata = delete(@, id),
                 !.outcome = "resolved"]

useNativePhotoStorage_addPhoto(s, photo, fault) ==
  LET saved == nativePhotoStorage_savePhoto(s, photo, fault) IN
  IF saved.outcome = "resolved"
    THEN [saved EXCEPT !.photos = <<photo>> \o @]
    ELSE saved

\* found: photos.find(p => p.id === photoId) when the call was made.
useNativePhotoStorage_removePhoto(s, id, found, fault) ==
  IF ~found THEN [s EXCEPT !.outcome = "resolved"]
  ELSE LET deleted == nativePhotoStorage_deletePhoto(s, id, fault) IN
       IF deleted.outcome = "resolved"
         THEN [deleted EXCEPT !.photos = WithoutId(@, id)]
         ELSE deleted

\* NativePhotoStorage.clearAllPhotos: rmdir of the whole directory.
useNativePhotoStorage_clearAllPhotos(s, fault) ==
  IF fault = "none"
    THEN [s EXCEPT !.imageFiles = {}, !.metadata = {}, !.photos = << >>,
                   !.outcome = "resolved"]
    ELSE [s EXCEPT !.outcome = "rejected"]

\* ------------------------------- useNativePhotoStorage, isNative false

\* The call goes to the useAndroidPhotoStorage hook inside, then loadPhotos
\* reloads that hook; the hook's own photos state is not written.
useNativePhotoStorage_viaFallback(after) ==
  IF after.outcome = "resolved" THEN useAndroidPhotoStorage_loadPhotos(after) ELSE after

\* -------------------------------------------------- usePhotoStorage

\* seen: the photos the callback captured when the call was made.  Both the
\* try and the catch branch write the state and localStorage, and the catch
\* branch does not rethrow.
\* PhotoStorage.savePhoto is store.add: it fails, too, when the key is stored.
usePhotoStorage_addPhoto(s, photo, seen, fault) ==
  [s EXCEPT !.db = IF fault = "none" /\ photo.id \notin {q.id : q \in @}
                     THEN @ \cup {photo} ELSE @,
            !.photos = @ \o <<photo>>,
            !.localBackup = Some(seen \o <<photo>>),
            !.outcome = "resolved"]

usePhotoStorage_removePhoto(s, id, seen, fault) ==
  [s EXCEPT !.db = IF fault = "none" THEN delete(@, id) ELSE @,
            !.photos = WithoutId(@, id),
            !.localBackup = Some(WithoutId(seen, id)),
            !.outcome = "resolved"]

usePhotoStorage_clearAllPhotos(s, fault) ==
  [s EXCEPT !.db = IF fault = "none" THEN {} ELSE @,
            !.photos = << >>,
            !.localBackup = None,
            !.outcome = "resolved"]

\* -------------------------------------------------------- store reads

\* getPhotosByBarcode(barcode) of the mounted hook: a filter of the photos
\* state of the hook itself.
getPhotosByBarcode(barcode) ==
  IF facade = "android" THEN WithBarcode(androidPhotos, barcode)
  ELSE WithBarcode(photos, barcode)

\* The photos the mounted hook returns.
CachedPhotos ==
  IF facade \in {"android", "web"} THEN androidPhotos ELSE photos

\* The backend's listing: getAllPhotos of IndexedDB, getAllPhotosMetadata of
\* the native file system.
BackendPhotos == IF facade = "native" THEN metadata ELSE db

\* ------------------------------------------------------ store calls

NoPhoto == [id |-> << >>, barcode |-> "", timestamp |-> 0]

\* A call that has been made and awaits its backend: the operation, the
\* record (addPhoto) and the id it is about and, read when the call was made,
\* whether photos.find found the id (useNativePhotoStorage with isNative) and
\* the photos the callback had captured (usePhotoStorage).
Call(op, photo, id) ==
  [op |-> op,
   photo |-> photo,
   id |-> id,
   found |-> facade = "native" /\ id \in IdsOf(photos),
   seen |-> IF facade = "legacy" THEN photos ELSE << >>]

MakeCall(c) ==
  /\ nOps < MaxOps
  /\ Len(calls) < MaxPending
  /\ calls' = Append(calls, c)
  /\ nOps' = nOps + 1
  /\ UNCHANGED <<facade, photos, androidPhotos, db, imageFiles, metadata,
                 localBackup, clock, result>>
  /\ UNCHANGED <<scannerVars, shellVars, validation>>

\* addPhoto(barcode, imageData) up to its first await.
AddPhoto(barcode, random) ==
  /\ facade = "legacy" => random = 0
  /\ LET photo == NewPhoto(facade, barcode, clock, random) IN
       MakeCall(Call("add", photo, photo.id))

\* The ids a caller can name: those of the records listed or stored, the id
\* the call settled last was given or returned, and one that was never stored.
KnownIds ==
  IdsOf(photos) \cup IdsOf(androidPhotos) \cup {q.id : q \in db \cup metadata}
    \cup imageFiles
    \cup (IF result.op = "remove" \/ (result.op = "add" /\ result.outcome = "resolved")
            THEN {result.id} ELSE {})
    \cup {NeverStoredId}

\* removePhoto(photoId) up to its first await.
\* Every id a record can bear, and the one that was never stored.
PhotoIds ==
  {PhotoId(f, barcode, now, random) :
     f \in Facades, barcode \in Barcodes, now \in Times, random \in Randoms}
    \cup {NeverStoredId}

RemovePhoto(id) ==
  /\ id \in KnownIds
  /\ MakeCall(Call("remove", NoPhoto, id))

\* clearAllPhotos() up to its first await.
ClearAllPhotos ==
  /\ Len(calls) < MaxPending
  /\ MakeCall(Call("clear", NoPhoto, << >>))

\* The faults that can befall the backend requests of the call c.
FaultsOf(c) ==
  IF facade = "native" /\ c.op = "remove" /\ ~c.found THEN {"none"}
  ELSE IF facade = "native" /\ c.op # "clear" THEN Faults
  ELSE {"none", "backend"}

\* The store after the call c has run to its end under fault.
Settled(s, c, fault) ==
  CASE facade = "android" /\ c.op = "add" ->
         useAndroidPhotoStorage_addPhoto(s, c.photo, fault)
    [] facade = "android" /\ c.op = "remove" ->
         useAndroidPhotoStorage_removePhoto(s, c.id, fault)
    [] facade = "android" /\ c.op = "clear" ->
         useAndroidPhotoStorage_clearAllPhotos(s, fault)
    [] facade = "native" /\ c.op = "add" ->
         useNativePhotoStorage_addPhoto(s, c.photo, fault)
    [] facade = "native" /\ c.op = "remove" ->
         useNativePhotoStorage_removePhoto(s, c.id, c.found, fault)
    [] facade = "native" /\ c.op = "clear" ->
         useNativePhotoStorage_clearAllPhotos(s, fault)
    [] facade = "web" /\ c.op = "add" ->
         useNativePhotoStorage_viaFallback(
           useAndroidPhotoStorage_addPhoto(s, c.photo, fault))
    [] facade = "web" /\ c.op = "remove" ->
         useNativePhotoStorage_viaFallback(
           useAndroidPhotoStorage_removePhoto(s, c.id, fault))
    [] facade = "web" /\ c.op = "clear" ->
         useNativePhotoStorage_viaFallback(
           useAndroidPhotoStorage_clearAllPhotos(s, fault))
    [] facade = "legacy" /\ c.op = "add" ->
         usePhotoStorage_addPhoto(s, c.photo, c.seen, fault)
    [] facade = "legacy" /\ c.op = "remove" ->
         usePhotoStorage_removePhoto(s, c.id, c.seen, fault)
    [] facade = "legacy" /\ c.op = "clear" ->
         usePhotoStorage_clearAllPhotos(s, fault)

\* Whether what the call c is about was there when its backend answered: the
\* id of removePhoto in the listing and the backend, any record at all for
\* clearAllPhotos.
Held(c) ==
  IF c.op = "remove"
    THEN c.id \in IdsOf(CachedPhotos) /\ c.id \in {q.id : q \in BackendPhotos}
    ELSE CachedPhotos # << >> /\ BackendPhotos # {}

\* The calls without the i-th.
WithoutCall(i) == [k \in 1..(Len(calls) - 1) |-> IF k < i THEN calls[k] ELSE calls[k + 1]]

\* The backend answers the i-th pending call and the call runs to its end.
Settle(i, fault) ==
  /\ i \in 1..Len(calls)
  /\ fault \in FaultsOf(calls[i])
  /\ LET after == Settled(StoreState, calls[i], fault) IN
       /\ photos' = after.photos
       /\ androidPhotos' = after.androidPhotos
       /\ db' = after.db
       /\ imageFiles' = after.imageFiles
       /\ metadata' = after.metadata
       /\ localBackup' = after.localBackup
       /\ result' = [op |-> calls[i].op, id |-> calls[i].id, outcome |-> after.outcome,
                     had |-> Held(calls[i])]
  /\ calls' = WithoutCall(i)
  /\ UNCHANGED <<facade, clock, nOps>>
  /\ UNCHANGED <<scannerVars, shellVars, validation>>

\* Date.now() moves on.
ClockTick ==
  /\ clock + 1 \in Times
  /\ clock' = clock + 1
  /\ UNCHANGED <<facade, photos, androidPhotos, db, imageFiles, metadata,
                 localBackup, calls, nOps, result>>
  /\ UNCHANGED <<scannerVars, shellVars, validation>>

StoreNext ==
  \/ \E barcode \in Barcodes, random \in Randoms : AddPhoto(barcode, random)
  \/ \E id \in PhotoIds : RemovePhoto(id)
  \/ ClearAllPhotos
  \/ \E i \in 1..MaxPending, fault \in Faults : Settle(i, fault)
  \/ ClockTick

\* The store behind any one of the hooks, the scanner idle.
StoreSpecInit ==
  /\ ScannerInit
  /\ ShellInit
  /\ \E f \in Facades : StoreInit(f)

StoreSpec == StoreSpecInit /\ [][StoreNext]_vars

\* ------------- useNativePhotoStorage over NativeFileStorage (files)

\* The files of Documents/campo-scanner are held in imageFiles as records
\* [fileName, imageData]; fileName <<barcode, n>> stands for
\* campo-scanner/<barcode>/<barcode> (n).jpg.

FileNames(files) == {f.fileName : f \in files}

\* getNextFileNumber: the .jpg files of the barcode's directory, plus one.
getNextFileNumber(files, barcode) ==
  Cardinality({f \in files : f.fileName[1] = barcode}) + 1

\* Filesystem.writeFile: the file is created, or replaced when it exists.
writeFile(files, file) ==
  {f \in files : f.fileName # file.fileName} \cup {file}

\* NativeFileStorage.savePhoto: the file written and the record returned.
NativeFileStorage_savePhoto(files, barcode, imageData, now, random) ==
  LET fileName == <<barcode, getNextFileNumber(files, barcode)>> IN
  [files |-> writeFile(files, [fileName |-> fileName, imageData |-> imageData]),
   photo |-> [id |-> PhotoId("files", barcode, now, random),
              barcode |-> barcode,
              timestamp |-> now,
              fileName |-> fileName,
              imageData |-> imageData]]

\* readdir order: by directory, then by file name.
FileBefore(f, g) ==
  \/ BarcodeRank(f.fileName[1]) < BarcodeRank(g.fileName[1])
  \/ f.fileName[1] = g.fileName[1] /\ f.fileName[2] < g.fileName[2]

\* NativeFileStorage.getAllPhotos: one record per .jpg file, its id and its
\* timestamp made up when the file is read (random[f] is the suffix drawn for
\* f); the sort by timestamp keeps readdir order among equal timestamps.
RECURSIVE NativeFileStorage_getAllPhotos(_, _, _)
NativeFileStorage_getAllPhotos(files, now, random) ==
  IF files = {} THEN << >>
  ELSE LET f == CHOOSE g \in files : \A h \in files \ {g} : FileBefore(g, h) IN
       <<[id |-> PhotoId("files", f.fileName[1], now, random[f]),
          barcode |-> f.fileName[1],
          timestamp |-> now,
          fileName |-> f.fileName,
          imageData |-> f.imageData]>>
         \o NativeFileStorage_getAllPhotos(files \ {f}, now, random)

\* The calls of one behaviour of the hook over NativeFileStorage.
MaxFileOps == MaxOps + 1

FileResult(op, id, outcome) ==
  [op |-> op, id |-> id, outcome |-> outcome, had |-> FALSE]

FileFrame ==
  /\ UNCHANGED <<facade, androidPhotos, db, metadata, localBackup, calls>>
  /\ UNCHANGED <<scannerVars, shellVars, validation>>

\* addPhoto, isNative branch: savePhoto, then the record goes first.
FileAddPhoto(barcode, random) ==
  /\ nOps < MaxFileOps
  /\ LET saved == NativeFileStorage_savePhoto(imageFiles, barcode, nOps + 1, clock, random) IN
       /\ imageFiles' = saved.files
       /\ photos' = <<saved.photo>> \o photos
       /\ result' = FileResult("add", saved.photo.id, "resolved")
  /\ nOps' = nOps + 1
  /\ UNCHANGED clock
  /\ FileFrame

\* removePhoto, isNative branch: photos.find, deleteFile of its filePath,
\* then the filter; deleteFile of a missing file rejects.
FileRemovePhoto(k) ==
  /\ nOps < MaxFileOps
  /\ k \in 1..Len(photos)
  /\ IF photos[k].fileName \in FileNames(imageFiles)
       THEN /\ imageFiles' = {f \in imageFiles : f.fileName # photos[k].fileName}
            /\ photos' = WithoutId(photos, photos[k].id)
            /\ result' = FileResult("remove", photos[k].id, "resolved")
       ELSE /\ UNCHANGED <<imageFiles, photos>>
            /\ result' = FileResult("remove", photos[k].id, "rejected")
  /\ nOps' = nOps + 1
  /\ UNCHANGED clock
  /\ FileFrame

\* loadPhotos, isNative branch: the state becomes getAllPhotos().
FileLoadPhotos ==
  /\ nOps < MaxFileOps
  /\ \E random \in [imageFiles -> Randoms] :
       photos' = NativeFileStorage_getAllPhotos(imageFiles, clock, random)
  /\ result' = FileResult("load", << >>, "resolved")
  /\ nOps' = nOps + 1
  /\ UNCHANGED <<imageFiles, clock>>
  /\ FileFrame

FileNext ==
  \/ \E barcode \in Barcodes, random \in Randoms : FileAddPhoto(barcode, random)
  \/ \E k \in 1..MaxFileOps : FileRemovePhoto(k)
  \/ FileLoadPhotos
  \/ ClockTick

FileSpecInit == ScannerInit /\ StoreInit("files") /\ ShellInit

\* useNativePhotoStorage over NativeFileStorage in the native shell.
FileSpec == FileSpecInit /\ [][FileNext]_vars

\* ------------------------------------- the IndexedDB backends' writes

Images == {1, 2}

\* compressImageForAndroid: the image redrawn and encoded as JPEG at 0.85.
compressImageForAndroid(imageData) == imageData + 2

\* The records handed to savePhoto.
SavedPhotos ==
  {[id |-> PhotoId("android", barcode, now, 0),
    barcode |-> barcode,
    timestamp |-> now,
    imageData |-> imageData] :
     barcode \in Barcodes, now \in Times, imageData \in Images}

\* AndroidPhotoStorage.savePhoto: the image compressed, then store.put.
AndroidPhotoStorage_savePhoto(records, photoData, fault) ==
  LET optimizedPhoto ==
        [photoData EXCEPT !.imageData = compressImageForAndroid(@)] IN
  IF fault = "none"
    THEN [records |-> put(records, optimizedPhoto), outcome |-> "resolved"]
    ELSE [records |-> records, outcome |-> "rejected"]

\* PhotoStorage.savePhoto: store.add, whose request fails when the key is
\* stored already.
PhotoStorage_savePhoto(records, photoData, fault) ==
  IF fault = "none" /\ photoData.id \notin {q.id : q \in records}
    THEN [records |-> records \cup {photoData}, outcome |-> "resolved"]
    ELSE [records |-> records, outcome |-> "rejected"]

\* savePhoto of the backend chosen at the start.
savePhoto(records, photoData, fault) ==
  IF facade = "android"
    THEN AndroidPhotoStorage_savePhoto(records, photoData, fault)
    ELSE PhotoStorage_savePhoto(records, photoData, fault)

BackendFrame ==
  /\ UNCHANGED <<facade, photos, androidPhotos, imageFiles, metadata,
                 localBackup, calls, clock>>
  /\ UNCHANGED <<scannerVars, shellVars, validation>>

SavePhoto(photoData, fault) ==
  /\ nOps < MaxOps
  /\ LET saved == savePhoto(db, photoData, fault) IN
       /\ db' = saved.records
       /\ result' = [op |-> "save", id |-> photoData.id, outcome |-> saved.outcome,
                     had |-> photoData.id \in {q.id : q \in db}]
  /\ nOps' = nOps + 1
  /\ BackendFrame

\* deletePhoto(id) of either backend: store.delete.
DeletePhoto(id) ==
  /\ nOps < MaxOps
  /\ id \in {q.id : q \in db}
  /\ db' = delete(db, id)
  /\ result' = [op |-> "delete", id |-> id, outcome |-> "resolved", had |-> TRUE]
  /\ nOps' = nOps + 1
  /\ BackendFrame

BackendNext ==
  \/ \E photoData \in SavedPhotos, fault \in {"none", "backend"} : SavePhoto(photoData, fault)
  \/ \E id \in PhotoIds : DeletePhoto(id)

BackendSpecInit ==
  /\ ScannerInit
  /\ ShellInit
  /\ \E f \in {"android", "legacy"} : StoreInit(f)

\* AndroidPhotoStorage or PhotoStorage driven directly.
BackendSpec == BackendSpecInit /\ [][BackendNext]_vars

\* ------------------------------------------------------------ export

\* The export file: summary.totalPhotos, summary.uniqueBarcodes and the ids
\* of the photos entries, of a list of records.
ExportOf(list) ==
  [totalPhotos |-> Len(list),
   uniqueBarcodes |-> Cardinality({list[k].barcode : k \in 1..Len(list)}),
   photos |-> [k \in 1..Len(list) |-> list[k].id]]

\* exportData of the hook, run to its end.  useAndroidPhotoStorage, and
\* useNativePhotoStorage outside the native shell, run
\* exportAllPhotosForAndroid, which lists the backend and throws when the
\* listing is empty; the native branch of useNativePhotoStorage writes the
\* file from the photos state.
ExportData ==
  /\ facade # "legacy"
  /\ calls = << >>
  /\ result.op # "export"
  /\ LET list == IF facade = "native" THEN photos ELSE getAllPhotos(db) IN
       result' = IF facade # "native" /\ Len(list) = 0
                   THEN [op |-> "export", id |-> << >>, outcome |-> "rejected",
                         had |-> FALSE, file |-> None]
                   ELSE [op |-> "export", id |-> << >>, outcome |-> "resolved",
                         had |-> TRUE, file |-> Some(ExportOf(list))]
  /\ UNCHANGED <<facade, photos, androidPhotos, db, imageFiles, metadata,
                 localBackup, calls, clock, nOps>>
  /\ UNCHANGED <<scannerVars, shellVars, validation>>

\* The store with its export.
ExportSpec == StoreSpecInit /\ [][StoreNext \/ ExportData]_vars

\* ------------------- useAndroidPhotoStorage from its mount effect on

\* The hook as it mounts: IndexedDB holds what an earlier session left (no
\* record, or one of barcode A), the cache is empty, and the loadPhotos of
\* the mount effect awaits getAllPhotos.
MountInit ==
  /\ ScannerInit
  /\ ShellInit
  /\ facade = "android"
  /\ photos = << >>
  /\ androidPhotos = << >>
  /\ db \in {{}, {NewPhoto("android", "A", 0, 0)}}
  /\ imageFiles = {}
  /\ metadata = {}
  /\ localBackup = None
  /\ calls = <<Call("load", NoPhoto, << >>)>>
  /\ clock = 0
  /\ nOps = 0
  /\ result = NoResult

\* loadPhotos after its await: getAllPhotos answers and setPhotos takes the
\* listing; when getAllPhotos rejects, the catch logs, the cache is left as
\* it is and nothing is thrown.
loadPhotos(i, fault) ==
  /\ i \in 1..Len(calls)
  /\ calls[i].op = "load"
  /\ fault \in {"none", "backend"}
  /\ androidPhotos' = IF fault = "none"
                        THEN useAndroidPhotoStorage_loadPhotos(StoreState).androidPhotos
                        ELSE androidPhotos
  /\ result' = [op |-> "load", id |-> << >>, outcome |-> "resolved", had |-> FALSE]
  /\ calls' = WithoutCall(i)
  /\ UNCHANGED <<facade, photos, db, imageFiles, metadata, localBackup, clock, nOps>>
  /\ UNCHANGED <<scannerVars, shellVars, validation>>

\* The backend answers a pending addPhoto, removePhoto or clearAllPhotos;
\* none of the shell's handlers has awaited the call, so the shell is left as
\* it is (Settle).
MountSettle(i, fault) ==
  /\ i \in 1..Len(calls)
  /\ calls[i].op \notin {"load", "export"}
  /\ Settle(i, fault)

\* exportData after its await: exportAllPhotosForAndroid lists IndexedDB,
\* throws when the listing fails or is empty, and downloads the file
\* otherwise; the hook rethrows, and handleExportData has not awaited it.
exportData(i, fault) ==
  /\ i \in 1..Len(calls)
  /\ calls[i].op = "export"
  /\ fault \in {"none", "backend"}
  /\ result' = IF fault = "backend" \/ db = {}
                 THEN [op |-> "export", id |-> << >>, outcome |-> "rejected",
                       had |-> FALSE, file |-> None]
                 ELSE [op |-> "export", id |-> << >>, outcome |-> "resolved",
                       had |-> TRUE, file |-> Some(ExportOf(getAllPhotos(db)))]
  /\ calls' = WithoutCall(i)
  /\ UNCHANGED <<facade, photos, androidPhotos, db, imageFiles, metadata,
                 localBackup, clock, nOps>>
  /\ UNCHANGED <<scannerVars, shellVars, validation>>

\* A handler of CampoScanner calls the hook (the call runs up to its first
\* await) and shows its toast in the same turn.
HandlerCalls(op, id, title) ==
  /\ nOps < MaxOps
  /\ Len(calls) < MaxPending
  /\ calls' = Append(calls, Call(op, NoPhoto, id))
  /\ nOps' = nOps + 1
  /\ shell' = [shell EXCEPT !.toast = title]
  /\ UNCHANGED <<facade, photos, androidPhotos, db, imageFiles, metadata,
                 localBackup, clock, result>>
  /\ UNCHANGED <<scannerVars, camera, validation>>

\* handleRemovePhoto for a photo shown, window.confirm answered with OK.
handleRemovePhoto(photoId) ==
  /\ photoId \in IdsOf(androidPhotos)
  /\ HandlerCalls("remove", photoId, "Foto removida")

handleClearHistory ==
  /\ TRUE
  /\ HandlerCalls("clear", << >>, "Historico limpo!")

\* handleExportData: with no photo in the list it only shows its refusal.
handleExportData ==
  IF Len(androidPhotos) = 0
    THEN /\ shell.toast # "Nenhuma foto para exportar"
         /\ shell' = [shell EXCEPT !.toast = "Nenhuma foto para exportar"]
         /\ UNCHANGED <<scannerVars, storeVars, camera, validation>>
    ELSE HandlerCalls("export", << >>, "Dados exportados!")

\* addPhoto is called as handlePhotoSaved calls it; removePhoto,
\* clearAllPhotos and exportData are called by their handlers.
MountNext ==
  \/ \E barcode \in Barcodes, random \in Randoms : AddPhoto(barcode, random)
  \/ \E photoId \in PhotoIds : handleRemovePhoto(photoId)
  \/ handleClearHistory
  \/ handleExportData
  \/ \E i \in 1..MaxPending, fault \in Faults : MountSettle(i, fault)
  \/ \E i \in 1..MaxPending, fault \in Faults : loadPhotos(i, fault)
  \/ \E i \in 1..MaxPending, fault \in Faults : exportData(i, fault)
  \/ ClockTick

\* CampoScanner's store: useAndroidPhotoStorage from mount, its initial load
\* in flight.
MountSpec == MountInit /\ [][MountNext]_vars

\* ----------------------------------------------------- HistoryScreen

\* Barcodes of the records shown; "toString" passes validateBarcode and the
\* manual input's checks like any other word of letters.
HistoryBarcodes == {"A", "B", "toString"}

\* The property names every object literal inherits from Object.prototype.
ObjectPrototype == {"toString"}

\* groupedPhotos: photos.reduce((acc, photo) => ..., {}) from the k-th record
\* on.  acc[photo.barcode] of a name that is not an own property is the
\* inherited function when Object.prototype has the name: it is truthy, so no
\* array is assigned, and its push is not a function (TypeError).
RECURSIVE groupedPhotos(_, _, _)
groupedPhotos(list, k, acc) ==
  IF k > Len(list) THEN [outcome |-> "resolved", groups |-> acc]
  ELSE LET key == list[k].barcode IN
       IF key \notin DOMAIN acc /\ key \in ObjectPrototype
         THEN [outcome |-> "TypeError", groups |-> acc]
         ELSE groupedPhotos(list, k + 1,
                [x \in DOMAIN acc \cup {key} |->
                   IF x # key THEN acc[x]
                   ELSE IF key \in DOMAIN acc THEN Append(acc[key], list[k])
                   ELSE <<list[k]>>])

\* The photos prop gets one more record (the listing after an addPhoto).
ReceivePhoto(barcode) ==
  /\ Len(photos) < MaxFileOps
  /\ photos' = Append(photos, [id |-> <<barcode, Len(photos)>>, barcode |-> barcode,
                               timestamp |-> clock])
  /\ result' = NoResult
  /\ UNCHANGED <<facade, androidPhotos, db, imageFiles, metadata, localBackup,
                 calls, clock, nOps>>
  /\ UNCHANGED <<scannerVars, shellVars, validation>>

\* HistoryScreen renders: the groups are computed from the photos prop.
RenderHistory ==
  /\ result = NoResult
  /\ LET grouped == groupedPhotos(photos, 1, [x \in {} |-> << >>]) IN
       result' = [op |-> "render", id |-> << >>, outcome |-> grouped.outcome,
                  had |-> photos # << >>, groups |-> grouped.groups]
  /\ UNCHANGED <<facade, photos, androidPhotos, db, imageFiles, metadata,
                 localBackup, calls, clock, nOps>>
  /\ UNCHANGED <<scannerVars, shellVars, validation>>

\* HistoryScreen over the listings it may be given.
HistorySpec ==
  /\ FileSpecInit
  /\ [][RenderHistory \/ \E barcode \in HistoryBarcodes : ReceivePhoto(barcode)]_vars

\* ------------------------------------------- the application shell

\* if (currentBarcode): a string that is neither null nor empty.
Truthy(barcode) == barcode # None /\ barcode[1] # << >>

\* String.prototype.trim, white space being the character " ".
RECURSIVE trim(_)
trim(text) ==
  IF text = << >> THEN << >>
  ELSE IF Head(text) = " " THEN trim(Tail(text))
  ELSE IF text[Len(text)] = " " THEN trim(SubSeq(text, 1, Len(text) - 1))
  ELSE text

MinManualLength == 2

MaxManualLength == 100

\* What the user may have typed when the form is submitted.
ManualInputs ==
  {<< >>, <<" ">>, <<"7">>, <<"7", "8">>, <<" ", "7", "8", " ">>, <<"7", " ", "8">>,
   [i \in 1..(MaxManualLength + 1) |-> "7"]}

\* ManualBarcodeInput.handleSubmit: the barcode handed to onBarcodeEntered,
\* none when the form shows an error instead.
handleSubmit(barcode) ==
  LET trimmedBarcode == trim(barcode) IN
    IF \/ trimmedBarcode = << >>
       \/ Len(trimmedBarcode) < MinManualLength
       \/ Len(trimmedBarcode) > MaxManualLength
       \/ \E i \in 1..Len(trimmedBarcode) : trimmedBarcode[i] \notin AllowedChars
      THEN None
      ELSE Some(trimmedBarcode)

\* A faulty handlePhotoSaved without its guard; the property C28 does not
\* hold of it.
handlePhotoSavedUnguarded(currentBarcode) == currentBarcode

\* CampoScanner.handlePhotoSaved: the barcode handed to addPhoto, none when
\* the handler returns at its guard.
handlePhotoSaved(currentBarcode) ==
  IF ~Truthy(currentBarcode) THEN None ELSE currentBarcode

\* MainScreen is rendered, and WorkScreen (it needs a barcode).
MainShown == shell.currentScreen = "main"

WorkShown == shell.currentScreen = "work" /\ Truthy(shell.currentBarcode)

\* useCamera.requestCameraPermission up to its await.
requestCameraPermission(c) ==
  [c EXCEPT !.pending = @ + 1, !.requests = @ + 1, !.error = FALSE]

\* useCamera.stopCamera, and PhotoCamera dropping its captured image: the
\* tracks of the stream in the state `stream` stop, if it holds one, and the
\* element loses its source.
stopCamera(c) ==
  [c EXCEPT !.live = IF c.stream THEN @ - 1 ELSE @, !.stream = FALSE,
            !.video = FALSE, !.captured = FALSE]

\* onStartScanner of MainScreen, onNewBarcode of WorkScreen: the scanner
\* modal opens and, isOpen having changed, its effect runs handleOpen.
OpenBarcodeScanner ==
  /\ MainShown \/ WorkShown
  /\ ~shell.showBarcodeScanner
  /\ shell' = [shell EXCEPT !.showBarcodeScanner = TRUE]
  /\ IF ~scannerState.isScanning
       THEN startScanner
       ELSE UNCHANGED scannerVars
  /\ UNCHANGED <<storeVars, camera, validation>>

\* Cancelar, or the X of the modal: BarcodeScanner.handleClose, then the
\* effect of isOpen having become false.
CloseBarcodeScanner ==
  /\ shell.showBarcodeScanner
  /\ shell' = [shell EXCEPT !.showBarcodeScanner = FALSE]
  /\ ScannerBecomes(stopScanner(stopScanner(StopState)))
  /\ UNCHANGED <<storeVars, camera, validation>>

\* The effect on scannerState.currentBarcode (it runs again after every
\* render of the shell, onBarcodeDetected being a new function each time):
\* a timer of one second is set that captures the barcode.
BarcodeEffect ==
  /\ scannerState.currentBarcode # None
  /\ scannerState.currentBarcode[1] \notin shell.autoClose
  /\ shell' = [shell EXCEPT !.autoClose = @ \cup {scannerState.currentBarcode[1]}]
  /\ UNCHANGED <<scannerVars, storeVars, camera, validation>>

\* An auto-close timer runs: handleBarcodeDetected with the barcode it
\* captured, then handleClose and, if isOpen changed, the effect.  again: a
\* timer that captured the same barcode is still pending.
AutoCloseFire(code, again) ==
  /\ code \in shell.autoClose
  /\ shell' = [shell EXCEPT !.currentBarcode = Some(code),
                            !.currentScreen = "work",
                            !.showBarcodeScanner = FALSE,
                            !.autoClose = IF again THEN @ ELSE @ \ {code}]
  /\ ScannerBecomes(IF shell.showBarcodeScanner
                      THEN stopScanner(stopScanner(StopState))
                      ELSE stopScanner(StopState))
  /\ UNCHANGED <<storeVars, camera, validation>>

\* onManualEntry of MainScreen and WorkScreen.
OpenManualInput ==
  /\ MainShown \/ WorkShown
  /\ ~shell.showManualInput
  /\ shell' = [shell EXCEPT !.showManualInput = TRUE]
  /\ UNCHANGED <<scannerVars, storeVars, camera, validation>>

\* The form is submitted with a barcode handleSubmit lets through:
\* handleManualBarcodeEntered, then handleClose.  (Otherwise the form shows
\* its error and nothing else changes.)
SubmitManualInput(barcode) ==
  /\ shell.showManualInput
  /\ handleSubmit(barcode) # None
  /\ shell' = [shell EXCEPT !.currentBarcode = handleSubmit(barcode),
                            !.currentScreen = "work",
                            !.showManualInput = FALSE]
  /\ UNCHANGED <<scannerVars, storeVars, camera, validation>>

CloseManualInput ==
  /\ shell.showManualInput
  /\ shell' = [shell EXCEPT !.showManualInput = FALSE]
  /\ UNCHANGED <<scannerVars, storeVars, camera, validation>>

\* onShowHistory of MainScreen.
ShowHistory ==
  /\ MainShown
  /\ shell' = [shell EXCEPT !.currentScreen = "history"]
  /\ UNCHANGED <<scannerVars, storeVars, camera, validation>>

\* onBackToMain of WorkScreen and HistoryScreen.
BackToMain ==
  /\ WorkShown \/ shell.currentScreen = "history"
  /\ shell' = [shell EXCEPT !.currentScreen = "main"]
  /\ UNCHANGED <<scannerVars, storeVars, camera, validation>>

\* onTakePhoto of WorkScreen: the camera modal opens and, isOpen having
\* changed, its effect runs handleOpen.
OpenPhotoCamera ==
  /\ WorkShown
  /\ ~shell.showPhotoCamera
  /\ shell' = [shell EXCEPT !.showPhotoCamera = TRUE]
  /\ IF ~camera.hasPermission
       THEN /\ camera.requests < MaxStarts
            /\ camera' = requestCameraPermission(camera)
       ELSE UNCHANGED camera
  /\ UNCHANGED <<scannerVars, storeVars, validation>>

\* Tentar Novamente, shown with the error.
RetryCamera ==
  /\ shell.showPhotoCamera
  /\ camera.error
  /\ camera.requests < MaxStarts
  /\ camera' = requestCameraPermission(camera)
  /\ UNCHANGED <<scannerVars, storeVars, shell, validation>>

\* getUserMedia resolves: setStream, the element (there is one while the
\* modal is open) takes the stream, hasPermission becomes true.
CameraAcquired ==
  /\ camera.pending > 0
  /\ camera' = [camera EXCEPT !.pending = @ - 1, !.live = @ + 1, !.stream = TRUE,
                              !.video = shell.showPhotoCamera \/ @,
                              !.hasPermission = TRUE, !.error = FALSE]
  /\ UNCHANGED <<scannerVars, storeVars, shell, validation>>

\* getUserMedia rejects.
CameraRefused ==
  /\ camera.pending > 0
  /\ camera' = [camera EXCEPT !.pending = @ - 1, !.hasPermission = FALSE, !.error = TRUE]
  /\ UNCHANGED <<scannerVars, storeVars, shell, validation>>

\* Cancelar, or the X of the modal: PhotoCamera.handleClose (the effect of
\* isOpen having become false finds the stream state already null).
ClosePhotoCamera ==
  /\ shell.showPhotoCamera
  /\ shell' = [shell EXCEPT !.showPhotoCamera = FALSE]
  /\ camera' = stopCamera(camera)
  /\ UNCHANGED <<scannerVars, storeVars, validation>>

\* PhotoCamera.handleCapture: the button is enabled with hasPermission and
\* the frame is drawn only from an element that plays a stream.
CapturePhoto ==
  /\ shell.showPhotoCamera
  /\ camera.hasPermission
  /\ camera.video
  /\ ~camera.captured
  /\ camera' = [camera EXCEPT !.captured = TRUE]
  /\ UNCHANGED <<scannerVars, storeVars, shell, validation>>

\* Salvar: PhotoCamera.handleSave calls handlePhotoSaved, which calls
\* addPhoto of useAndroidPhotoStorage (up to its first await) unless it
\* returns at its guard, and then handleClose.
HandleSave(random) ==
  /\ shell.showPhotoCamera
  /\ camera.captured
  /\ LET barcode == handlePhotoSaved(shell.currentBarcode) IN
       IF barcode = None
         THEN UNCHANGED <<calls, nOps>>
         ELSE /\ nOps < MaxOps
              /\ Len(calls) < MaxPending
              /\ calls' = Append(calls, LET photo == NewPhoto(facade, barcode[1], clock, random)
                                        IN Call("add", photo, photo.id))
              /\ nOps' = nOps + 1
  /\ shell' = [shell EXCEPT !.showPhotoCamera = FALSE]
  /\ camera' = stopCamera(camera)
  /\ UNCHANGED <<facade, photos, androidPhotos, db, imageFiles, metadata,
                 localBackup, clock, result>>
  /\ UNCHANGED <<scannerVars, validation>>

\* addPhoto settles (what it does to the store is Settle): after a resolved
\* call handlePhotoSaved closes the camera modal, after a rejected one it
\* shows the error.
PhotoSavedSettled(resolved) ==
  /\ calls # << >>
  /\ calls' = Tail(calls)
  /\ shell' = IF resolved THEN [shell EXCEPT !.showPhotoCamera = FALSE] ELSE shell
  /\ camera' = IF resolved /\ shell.showPhotoCamera THEN stopCamera(camera) ELSE camera
  /\ UNCHANGED <<facade, photos, androidPhotos, db, imageFiles, metadata,
                 localBackup, clock, nOps, result>>
  /\ UNCHANGED <<scannerVars, validation>>

\* What the decoder reports while the shell runs: a barcode, and the empty
\* string.
ShellCodes == {CodeC, << >>}

\* The shell with its modals.  The timers of the scanner (DecayFire,
\* StopFire, Tick) are left to Spec: they change when a session confirms and
\* when the decoder stops, and neither a stream nor the barcode confirmed.
ShellNext ==
  \/ OpenBarcodeScanner
  \/ CloseBarcodeScanner
  \/ BarcodeEffect
  \/ \E code \in ShellCodes, again \in BOOLEAN : AutoCloseFire(code, again)
  \/ OpenManualInput
  \/ \E barcode \in ManualInputs : SubmitManualInput(barcode)
  \/ CloseManualInput
  \/ ShowHistory
  \/ BackToMain
  \/ OpenPhotoCamera
  \/ RetryCamera
  \/ CameraAcquired
  \/ CameraRefused
  \/ ClosePhotoCamera
  \/ CapturePhoto
  \/ \E random \in Randoms : HandleSave(random)
  \/ \E resolved \in BOOLEAN : PhotoSavedSettled(resolved)
  \/ CameraGranted(shell.showBarcodeScanner)
  \/ CameraDenied
  \/ LoadedMetadata
  \/ InitOk
  \/ InitErr
  \/ \E code \in ShellCodes : Detect(code, None)

\* The shell as it is after mounting: the effect of BarcodeScanner has run
\* stopScanner once, isOpen being false.
ShellSpecInit ==
  /\ StoreInit("android")
  /\ ShellInit
  /\ scannerState = [isScanning |-> FALSE, currentBarcode |-> None,
                     feedback |-> Feedback("stopped")]
  /\ streamRef = FALSE
  /\ liveStreams = 0
  /\ isInitializedRef = FALSE
  /\ lastDetectedRef = None
  /\ detectionCountRef = 0
  /\ detectionTimeoutRef = NoTimeout
  /\ isProcessingRef = FALSE
  /\ quaggaRunning = FALSE
  /\ handlers = 0
  /\ stopTimers = << >>
  /\ starts = NoStarts
  /\ nStarts = 0
  /\ run = NoRun
  /\ confirms = 0
  /\ sinceAccepted = 0
  /\ stopsSinceStart = 0
  /\ lastEvent = "none"

ShellSpec == ShellSpecInit /\ [][ShellNext]_vars

\* ------------------------------------- the Candidate Validator at work

\* Length of the candidates tried in full.
MaxCandidateLength == 7

\* A digit and another, a letter, and a character outside the class.
Alphabet == {"1", "2", "A", "!"}

\* base repeated to the length n.
Cycle(base, n) == [i \in 1..n |-> base[((i - 1) % Len(base)) + 1]]

\* Every string over the alphabet up to the length tried in full, and the
\* strings around the maximum length that repeat three characters.
Candidates ==
  UNION {[1..n -> Alphabet] : n \in 0..MaxCandidateLength}
    \cup {Cycle(base, n) : base \in [1..3 -> Alphabet],
                           n \in {MaxLength - 1, MaxLength, MaxLength + 1}}

\* The i flag, for the letters the pattern names.
LowerCase(c) ==
  CASE c = "A" -> "a" [] c = "B" -> "b" [] c = "C" -> "c"
    [] c = "D" -> "d" [] c = "E" -> "e" [] c = "F" -> "f" [] OTHER -> c

\* prefix.test(code) for the pattern ^prefix with the i flag.
StartsWith(code, prefix) ==
  /\ Len(code) >= Len(prefix)
  /\ \A i \in 1..Len(prefix) : LowerCase(code[i]) = prefix[i]

\* /^(\d)\1{5,}$|^123456|^654321|^abcdef/i
isSequential(code) ==
  \/ /\ Len(code) >= 6
     /\ code[1] \in Digits
     /\ \A i \in 1..Len(code) : code[i] = code[1]
  \/ StartsWith(code, <<"1", "2", "3", "4", "5", "6">>)
  \/ StartsWith(code, <<"6", "5", "4", "3", "2", "1">>)
  \/ StartsWith(code, <<"a", "b", "c", "d", "e", "f">>)

\* A faulty strict validator without the test of the distinct characters;
\* the property C30 does not hold of it.
validateBarcodeStrictNoDiversity(code) ==
  /\ Len(code) > 0
  /\ ~(Len(code) < MinLength \/ Len(code) > MaxLength)
  /\ code[1] \in Digits /\ \A i \in 2..Len(code) : code[i] \in AllowedChars
  /\ ~isSequential(code)
  /\ ~\E i \in 1..(Len(code) - 4) : \A k \in 1..4 : code[i + k] = code[i]

\* validateBarcode of the strict variant of the hook.
validateBarcodeStrict(code) ==
  /\ Len(code) > 0
  /\ ~(Len(code) < MinLength \/ Len(code) > MaxLength)
  /\ code[1] \in Digits /\ \A i \in 2..Len(code) : code[i] \in AllowedChars
  /\ ~(uniqueChars(code) < 3 /\ Len(code) > 6)
  /\ ~isSequential(code)
  /\ ~\E i \in 1..(Len(code) - 4) : \A k \in 1..4 : code[i + k] = code[i]

\* The candidate is put to validateBarcode, and to the strict one.
ValidateBaseline ==
  /\ validation.baseline = None
  /\ validation' = [validation EXCEPT !.baseline = Some(validateBarcode(validation.code))]
  /\ UNCHANGED <<scannerVars, storeVars, shellVars>>

ValidateStrict ==
  /\ validation.strict = None
  /\ validation' = [validation EXCEPT !.strict = Some(validateBarcodeStrict(validation.code))]
  /\ UNCHANGED <<scannerVars, storeVars, shellVars>>

ValidatorInit ==
  /\ ScannerInit
  /\ StoreInit("android")
  /\ shell = NoShell
  /\ camera = NoCamera
  /\ \E code \in Candidates : validation = Unvalidated(code)

ValidatorSpec == ValidatorInit /\ [][ValidateBaseline \/ ValidateStrict]_vars

\* ---------------------------------------------------------------- claims

\* What a decode event may change: the refs, the React state and the timers.
SessionState ==
  <<scannerState, lastDetectedRef, detectionCountRef, detectionTimeoutRef,
    isProcessingRef, stopTimers>>

\* The confidence is a number under the floor.
NumericUnderFloor(conf) == Len(conf) = 1 /\ conf[1] < ConfidenceFloor

C2_ConfirmNeedsThresholdEvents ==
  confirms > 0
    => /\ run.fresh >= Threshold
       /\ run.code = scannerState.currentBarcode

\* C3: an accepted event whose candidate differs from the tracked one makes
\* its candidate the tracked one with a count of exactly 1.
C3_NewCandidateCountsFromOne ==
  [][\A code \in Codes, conf \in Confidences :
       (/\ ~isProcessingRef
        /\ lastDetectedRef # None /\ lastDetectedRef # Some(code)
        /\ detectionCountRef < Threshold
        /\ Accepted(code, conf)
        /\ Detect(code, conf))
       => (lastDetectedRef' = Some(code) /\ detectionCountRef' = 1)]_vars

\* C4: while a candidate is tracked and unconfirmed its decay timer is
\* pending and due within one decay window; when it runs the tracked
\* candidate is cleared and the count zeroed; and the next accepted event
\* then counts from 1.
C4_DecayClearsAndCountRestartsAtOne ==
  /\ [](lastDetectedRef # None /\ ~isProcessingRef
          => /\ detectionTimeoutRef.due >= 0
             /\ detectionTimeoutRef.due <= DecayTicks)
  /\ [][DecayFire => (lastDetectedRef' = None /\ detectionCountRef' = 0)]_vars
  /\ [][\A code \in Codes, conf \in Confidences :
          (/\ ~isProcessingRef
           /\ lastDetectedRef = None
           /\ Accepted(code, conf)
           /\ Detect(code, conf))
          => (lastDetectedRef' = Some(code) /\ detectionCountRef' = 1)]_vars

\* C5: the decay timer clears the tracked candidate of an unconfirmed run
\* only when no accepted event arrived for a whole decay window.
C5_DecayOnlyAfterQuietWindow ==
  [][(/\ ~isProcessingRef
      /\ lastDetectedRef # None
      /\ DecayFire)
       => sinceAccepted >= DecayTicks]_vars

C7_InvalidEventIgnored ==
  [][UNCHANGED SessionState
       \/ \A code \in Codes :
            validateBarcode(code) \/ \A conf \in Confidences : ~Detect(code, conf)]_vars

\* C7 witness: an invalid candidate arrived between matching reads of CodeC.
C7_Witness ==
  /\ lastEvent = "invalid"
  /\ lastDetectedRef = Some(CodeC)
  /\ detectionCountRef = Threshold - 1
  /\ handlers = 1
  /\ ~isProcessingRef

\* C8: a decode event with a numeric confidence under the floor changes
\* nothing of the session state (a step that changes any of it is not such
\* an event).
C8_UnderFloorIgnored ==
  [][UNCHANGED SessionState
       \/ \A code \in Codes, conf \in Confidences :
            ~(NumericUnderFloor(conf) /\ Detect(code, conf))]_vars

NothingPending ==
  /\ starts.camera = 0
  /\ starts.waiting = 0
  /\ starts.init = 0
  /\ stopTimers = << >>

\* C11: when stopScanner was the last to write the React state and every
\* pending callback of the starts before it has run, no camera stream is
\* held, the decoder is not running and no detection timer is pending.
C11_StopWhileStartingReleases ==
  (scannerState.feedback = Feedback("stopped") /\ NothingPending)
    => /\ ~streamRef
       /\ liveStreams = 0
       /\ ~quaggaRunning
       /\ detectionTimeoutRef.due = -1

\* C12: a rejected camera request or a decoder initialisation error leaves
\* isScanning false and a failure reason in feedback, and confirms nothing.
C12_AcquisitionFailureStops ==
  [][(CameraDenied \/ InitErr)
       => /\ ~scannerState'.isScanning
          /\ scannerState'.feedback \in {Feedback("cameraError"), Feedback("initError")}
          /\ scannerState'.currentBarcode = scannerState.currentBarcode
          /\ confirms' = confirms
          /\ isProcessingRef' = isProcessingRef]_vars

\* C12 witness: the first start failed, and the second start has reached
\* Active with the one detection callback it registered.
C12_Witness ==
  /\ nStarts = 2
  /\ handlers = 1
  /\ starts = NoStarts
  /\ scannerState.isScanning
  /\ scannerState.feedback = Feedback("active")
  /\ quaggaRunning

\* C13: every startScanner call leaves the tracked candidate null, the count
\* 0, the latch open, no decay timer pending and currentBarcode null, before
\* it first suspends.
C13_StartResetsSession ==
  [][StartScanner
       => /\ lastDetectedRef' = None
          /\ detectionCountRef' = 0
          /\ ~isProcessingRef'
          /\ detectionTimeoutRef' = NoTimeout
          /\ scannerState'.currentBarcode = None
          /\ run' = NoRun
          /\ confirms' = 0]_vars

\* C13 witness: a second startScanner has just run on a session that had
\* confirmed (the deferred decoder stop of the confirmation is still
\* pending).
C13_Witness ==
  /\ nStarts = 2
  /\ scannerState.feedback = Feedback("starting")
  /\ stopTimers # << >>
  /\ starts.camera = 1
  /\ detectionCountRef = 0
  /\ ~isProcessingRef

\* C14: with the callbacks and timers running whenever they are pending, a
\* stabilizer that is Starting eventually is not.
C14_StartingEnds ==
  (scannerState.feedback = Feedback("starting"))
    ~> (scannerState.feedback # Feedback("starting"))

\* A call of the useAndroidPhotoStorage or useNativePhotoStorage hook whose
\* i-th pending call settles under fault and resolves.
Resolves(i, fault) ==
  /\ Settle(i, fault)
  /\ result'.outcome = "resolved"

\* C15: round trip, with useAndroidPhotoStorage and with useNativePhotoStorage
\* on either backend: once addPhoto(b, image) has returned the record r,
\* getPhotosByBarcode(b) includes r; once removePhoto(r.id) has completed,
\* getPhotosByBarcode(b) does not include r.
C15_RoundTrip ==
  [][\A i \in 1..MaxPending, fault \in Faults :
       (facade \in {"android", "native", "web"} /\ Resolves(i, fault)) =>
         \A b \in Barcodes :
           /\ (calls[i].op = "add" /\ calls[i].photo.barcode = b) =>
                calls[i].id \in IdsOf(getPhotosByBarcode(b)')
           /\ calls[i].op = "remove" =>
                calls[i].id \notin IdsOf(getPhotosByBarcode(b)')]_vars

\* C16: once clearAllPhotos has completed successfully, whatever was added
\* and removed before, the listing (the cached photos and the backend's
\* getAllPhotos) is empty and getPhotosByBarcode(b) is empty for every
\* barcode b.  Completing successfully: the backend's clear succeeded.
C16_ClearEmptiesEverything ==
  [][\A i \in 1..MaxPending :
       (Settle(i, "none") /\ calls[i].op = "clear") =>
         /\ result'.outcome = "resolved"
         /\ CachedPhotos' = << >>
         /\ BackendPhotos' = {}
         /\ imageFiles' = {}
         /\ \A b \in Barcodes : getPhotosByBarcode(b)' = << >>]_vars

C16_Witness ==
  /\ result.op = "clear"
  /\ result.outcome = "resolved"
  /\ result.had
  /\ CachedPhotos = << >>
  /\ BackendPhotos = {}

\* The id is in neither the listing nor the backend: it was removed before
\* or never stored.
Absent(id) ==
  /\ id \notin IdsOf(photos) \cup IdsOf(androidPhotos)
  /\ id \notin {q.id : q \in db \cup metadata} \cup imageFiles

\* C17: removePhoto is idempotent on both backends: removePhoto(id) for an id
\* removed before or never stored does not throw and changes neither the
\* cached list nor the backend contents.
C17_RemoveIdempotent ==
  [][\A i \in 1..MaxPending :
       (facade # "legacy" /\ Settle(i, "none") /\ calls[i].op = "remove"
          /\ Absent(calls[i].id)) =>
         /\ result'.outcome = "resolved"
         /\ UNCHANGED <<photos, androidPhotos, db, imageFiles, metadata>>]_vars

\* C18: when the backend operation of addPhoto, removePhoto or clearAllPhotos
\* fails, the call rejects and the cached photo list is what it was before
\* the call.
C18_FailureRejectsAndKeepsCache ==
  [][\A i \in 1..MaxPending, fault \in Faults \ {"none"} :
       Settle(i, fault) =>
         /\ result'.outcome = "rejected"
         /\ UNCHANGED <<photos, androidPhotos>>]_vars

\* C19: the store does not mask a backend failure by switching medium: the
\* hook and its backend stay the ones selected at mount, no call touches the
\* medium of the backend not selected, and a call whose backend operation
\* failed persists nothing to localStorage in its place.
C19_NoMediumSwitch ==
  [][/\ facade' = facade
     /\ facade \in {"android", "web"} => UNCHANGED <<imageFiles, metadata, localBackup>>
     /\ facade = "native" => UNCHANGED <<db, localBackup>>
     /\ \A i \in 1..MaxPending, fault \in Faults \ {"none"} :
          Settle(i, fault) => localBackup' = localBackup]_vars

\* C20: record ids are unique: whatever addPhoto calls were made, two for one
\* barcode at one clock instant included, no two records share an id, so the
\* cached list never holds two records with one id (and put, keyed by id,
\* never replaces a record by another).
C20_IdsUnique ==
  \A i, j \in 1..Len(CachedPhotos) :
    i # j => CachedPhotos[i].id # CachedPhotos[j].id

\* The record p is in the list with the id, barcode and timestamp it has.
Lists(list, p) ==
  \E j \in 1..Len(list) :
    /\ list[j].id = p.id
    /\ list[j].barcode = p.barcode
    /\ list[j].timestamp = p.timestamp

\* C21: records are immutable after creation: a record the listing holds is
\* held by every later listing, a reload from the backend included, with the
\* same id, barcode and timestamp, until removePhoto deletes it.
C21_RecordsImmutable ==
  [][\A k \in 1..Len(photos) :
       \/ FileRemovePhoto(k)
       \/ Lists(photos', photos[k])]_vars

\* The records of the backend with the id of photoData.
StoredAs(records, photoData) == {q \in records : q.id = photoData.id}

\* C22: the database backend's write is an upsert: saving a record whose id
\* is already stored succeeds, the backend then holds exactly one record with
\* that id, with the fields of the last save (the image as the backend
\* encodes it), and saving a record again leaves the contents as they were.
C22_SaveIsUpsert ==
  [][\A photoData \in SavedPhotos :
       SavePhoto(photoData, "none") =>
         /\ result'.outcome = "resolved"
         /\ Cardinality(StoredAs(db', photoData)) = 1
         /\ \A q \in StoredAs(db', photoData) :
              /\ q.barcode = photoData.barcode
              /\ q.timestamp = photoData.timestamp
              /\ q.imageData \in {photoData.imageData,
                                  compressImageForAndroid(photoData.imageData)}
         /\ \A q \in StoredAs(db, photoData) :
              q.imageData \in {photoData.imageData,
                               compressImageForAndroid(photoData.imageData)}
                => db' = db]_vars

\* C23: records are destroyed only explicitly: removePhoto(id) removes the
\* record with that id and leaves every other record of the cache and of the
\* backend as it was, and no other operation (addPhoto and listing in
\* particular) makes a stored record disappear.
C23_OnlyExplicitDestruction ==
  [][/\ \A k \in 1..Len(photos) :
          (FileRemovePhoto(k) /\ result'.outcome = "resolved") =>
            /\ imageFiles' = {f \in imageFiles : f.fileName # photos[k].fileName}
            /\ photos' = WithoutId(photos, photos[k].id)
     /\ (\A k \in 1..Len(photos) : ~FileRemovePhoto(k)) => imageFiles \subseteq imageFiles']_vars

\* The ids of the records stored now: in IndexedDB, or (native file system)
\* as a JPG file or a metadata file.
StoredIds ==
  IF facade = "native" THEN imageFiles \cup {q.id : q \in metadata}
  ELSE {q.id : q \in db}

\* C25: the export summary reflects the records stored at export time:
\* totalPhotos is their number, uniqueBarcodes the number of their distinct
\* barcodes, and the photos list has one entry per stored record.
C25_ExportReflectsStore ==
  (result.op = "export" /\ result.outcome = "resolved") =>
    LET file == result.file[1] IN
      /\ file.totalPhotos = Cardinality(StoredIds)
      /\ file.uniqueBarcodes = Cardinality({id[1] : id \in StoredIds})
      /\ {file.photos[k] : k \in 1..Len(file.photos)} = StoredIds
      /\ Len(file.photos) = Cardinality(StoredIds)

\* C26: export with no stored records fails on every export path: no export
\* file is produced, the caller gets the failure, and records and cache are
\* as they were.
C26_EmptyExportFails ==
  [][(ExportData /\ StoredIds = {}) =>
       /\ result'.outcome = "rejected"
       /\ result'.file = None
       /\ UNCHANGED <<photos, androidPhotos, db, imageFiles, metadata>>]_vars

\* C24: grouping by barcode is a partition of the listing: one group per
\* distinct barcode present, each group holding exactly the records with that
\* barcode, the group sizes summing to the record count.
C24_GroupingIsPartition ==
  result.op = "render" =>
    /\ result.outcome = "resolved"
    /\ DOMAIN result.groups = {photos[k].barcode : k \in 1..Len(photos)}
    /\ \A barcode \in DOMAIN result.groups :
         result.groups[barcode] = WithBarcode(photos, barcode)

\* C27: never do both camera consumers (the barcode scanner, the photo
\* camera) hold a live stream, and a consumer that is closed and has no
\* acquisition pending holds none.
C27_CameraExclusive ==
  /\ ~(liveStreams > 0 /\ camera.live > 0)
  /\ ~shell.showPhotoCamera /\ camera.pending = 0 => camera.live = 0
  /\ ~shell.showBarcodeScanner /\ starts.camera = 0 => liveStreams = 0

\* C28: every addPhoto call the shell has made bears a non-empty barcode, the
\* shell's current barcode is never the empty string, and handlePhotoSaved
\* hands nothing to addPhoto when the current barcode is null or empty.
C28_BarcodeNeverEmpty ==
  /\ \A i \in 1..Len(calls) : calls[i].op = "add" => calls[i].photo.barcode # << >>
  /\ shell.currentBarcode # Some(<< >>)
  /\ \A barcode \in {None, Some(<< >>)} : handlePhotoSaved(barcode) = None

\* C28 witness: a photo was saved for a barcode the scanner confirmed, and
\* one for a barcode entered by hand.
C28_Witness ==
  /\ Len(calls) = 2
  /\ calls[1].photo.barcode = CodeC
  /\ calls[2].photo.barcode = <<"7", "8">>

\* What the validators said of the candidate.
Accepts(verdict) == verdict = Some(TRUE)

Rejects(verdict) == verdict = Some(FALSE)

\* C29: a candidate either validateBarcode accepts has a length from 6 to 50
\* and only characters of the class (digits, letters, - _ . /); the empty
\* string, a shorter, a longer and one with another character are rejected.
C29_RejectsLengthAndCharacters ==
  LET code == validation.code
      wellFormed == /\ Len(code) >= 6
                    /\ Len(code) <= 50
                    /\ \A i \in 1..Len(code) : code[i] \in AllowedChars
  IN /\ Accepts(validation.baseline) \/ Accepts(validation.strict) => wellFormed
     /\ ~wellFormed /\ validation.baseline # None => Rejects(validation.baseline)
     /\ ~wellFormed /\ validation.strict # None => Rejects(validation.strict)

\* C29 witness: a candidate of an allowed length with one character outside
\* the class, every other being a digit and not all the same, has been
\* rejected by both validators.
C29_Witness ==
  /\ validation.code = <<"1", "2", "1", "2", "!", "2">>
  /\ Rejects(validation.baseline)
  /\ Rejects(validation.strict)

\* C30: a candidate of length 6 to 50 that repeats one character is rejected
\* by both validators, and the strict one rejects every candidate longer
\* than 6 with fewer than 3 distinct characters.
C30_RejectsLowDiversity ==
  LET code == validation.code IN
    /\ Len(code) >= 6 /\ Len(code) <= 50 /\ uniqueChars(code) = 1
         => ~Accepts(validation.baseline) /\ ~Accepts(validation.strict)
    /\ Len(code) > 6 /\ uniqueChars(code) < 3 => ~Accepts(validation.strict)

\* C30 witness: "111111" has been rejected by both validators, and so has
\* the character repeated to the maximum length.
C30_Witness ==
  /\ validation.code \in {CodeRepeated, Cycle(<<"1">>, MaxLength)}
  /\ Rejects(validation.baseline)
  /\ Rejects(validation.strict)

\* C31: a decode event that reaches the detection handler while the
\* stabilizer is not scanning (after stopScanner, after a failed start)
\* changes no session state, arms no timer and sets no currentBarcode.
C31_DecodeOnlyWhileActive ==
  [][UNCHANGED SessionState
       \/ \A code \in Codes, conf \in Confidences :
            ~(~scannerState.isScanning /\ Detect(code, conf))]_vars

\* C32: whatever the number of stop and start cycles before it, one decode
\* event advances the consecutive-match count by at most 1.
C32_EventCountedOnce ==
  [][\A code \in Codes, conf \in Confidences :
       Detect(code, conf) => detectionCountRef' <= detectionCountRef + 1]_vars

\* C33: the deferred decoder stop scheduled at a confirmation stops only the
\* decoder of the session that confirmed: run after a later start has
\* reached Active (Quagga.init's callback was the last to write the
\* feedback, nothing is confirmed), it leaves the decoder running and the
\* initialised flag set.
C33_DeferredStopOwnSession ==
  [][(/\ scannerState.feedback = Feedback("active")
      /\ scannerState.isScanning
      /\ confirms = 0
      /\ StopFire)
       => UNCHANGED <<quaggaRunning, isInitializedRef>>]_vars

\* C34: a stabilizer that is not scanning and has nothing pending holds no
\* camera stream and none it acquired is live, and never are two streams
\* live at once.
C34_NoStreamUnlessScanning ==
  /\ liveStreams <= 1
  /\ ~scannerState.isScanning /\ NothingPending => ~streamRef /\ liveStreams = 0

\* C35: saving on the numbered-file backend never overwrites the file of a
\* stored photo: the file name chosen for the new photo is the name of no
\* file stored before the save, and every file stored before is kept as it
\* was.
C35_SaveNeverOverwrites ==
  [][\A barcode \in Barcodes, random \in Randoms :
       FileAddPhoto(barcode, random) =>
         /\ photos'[1].fileName \notin FileNames(imageFiles)
         /\ imageFiles \subseteq imageFiles']_vars

\* C36: on the native file system a successful add is durable: when
\* savePhoto has returned the record without throwing, getAllPhotosMetadata
\* lists a record with its id, so the image file written has a metadata entry
\* and the cached record is one a reload would show.
C36_SuccessfulAddDurable ==
  [][\A i \in 1..MaxPending, fault \in Faults :
       (facade = "native" /\ Resolves(i, fault) /\ calls[i].op = "add") =>
         /\ calls[i].id \in imageFiles'
         /\ calls[i].id \in IdsOf(photos')
         /\ calls[i].id \in {q.id : q \in metadata'}]_vars

\* C37: deletion on the native file system is all-or-nothing: when
\* deletePhoto has returned or thrown for a record whose image file and
\* metadata file were both present, either both are gone or both are still
\* present, and the cache keeps the record exactly when getAllPhotosMetadata
\* still lists it.
C37_DeleteAllOrNothing ==
  [][\A i \in 1..MaxPending, fault \in Faults :
       (/\ facade = "native"
        /\ Settle(i, fault)
        /\ calls[i].op = "remove"
        /\ calls[i].found
        /\ calls[i].id \in imageFiles
        /\ calls[i].id \in {q.id : q \in metadata}
        /\ calls[i].id \in IdsOf(photos)) =>
         /\ calls[i].id \in imageFiles' <=> calls[i].id \in {q.id : q \in metadata'}
         /\ calls[i].id \in IdsOf(photos') <=> calls[i].id \in {q.id : q \in metadata'}]_vars

\* C38: in useAndroidPhotoStorage, once every pending store operation has
\* completed (the load started on mount included, in any order with addPhoto,
\* removePhoto and clearAllPhotos), the ids of the cached list are the ids
\* stored in IndexedDB and the cached list is ordered by timestamp descending.
C38_CacheAgreesWithBackend ==
  calls = << >> =>
    /\ IdsOf(androidPhotos) = {q.id : q \in db}
    /\ \A i, j \in 1..Len(androidPhotos) :
         i < j => androidPhotos[i].timestamp >= androidPhotos[j].timestamp

\* C39: the shell reports success only for operations that succeeded: the
\* success toast of removePhoto, clearAllPhotos and exportData appears only
\* in a step in which that operation completes successfully, and when the
\* operation fails the toast shown from then on is not a success toast.
C39_SuccessOnlyAfterSuccess ==
  [][/\ (shell'.toast # shell.toast
          /\ shell'.toast \in {"Foto removida", "Historico limpo!", "Dados exportados!"}) =>
            (Len(calls') < Len(calls) /\ result'.outcome = "resolved")
     /\ (Len(calls') < Len(calls)
          /\ result'.op \in {"remove", "clear", "export"}
          /\ result'.outcome = "rejected") =>
            shell'.toast \notin {"Foto removida", "Historico limpo!", "Dados exportados!"}]_vars

====
